---- MODULE Spec2Model ----
(***************************************************************************)
(* django_counter_field.counter: a Counter keeps a CounterField on a       *)
(* parent row equal to the number of child rows that reference the parent  *)
(* and satisfy is_in_counter.  It reacts to post_change events of the      *)
(* child model (Counter.receive_change) and adjusts the parent row with a  *)
(* relative UPDATE (Counter.increment / Counter.set_counter_field).        *)
(*                                                                         *)
(* Two specifications share the operators that model the code:             *)
(*   Spec     - one change event at a time; an action is a whole           *)
(*              save/delete with its receive_change call, including a      *)
(*              storage error raised by one of its UPDATE statements and   *)
(*              parent rows that no longer exist.                          *)
(*   SpecConc - change events of different children in flight at the same  *)
(*              time; the atomic step is one UPDATE statement.             *)
(***************************************************************************)
EXTENDS Integers, Sequences, FiniteSets, TLC

\* ---------------------------------------------------------------- bounds
NumChildren == 2
NumParents == 2

Children == 1..NumChildren
ParentIds == 1..NumParents
\* the foreign key of an instance that was constructed without a parent
None == 0
ParentRefs == ParentIds \cup {None}

VARIABLES
    child,      \* child table and in-memory child state: [persisted, parent, q]
    counter,    \* parent table: primary key of each existing row -> counter value
    last,       \* Spec: the change event being delivered and what receive_change did with it
    failed,     \* Spec: an UPDATE raised a storage error; the run is followed up to there
    pending,    \* SpecConc: per child, the UPDATE calls its receive_change has still to issue
    applied,    \* SpecConc: per parent, the sum of the deltas of the UPDATEs executed on its row
    receivers,  \* SpecBind: the receivers connected to post_change, in connection order
    counters,   \* SpecBind: the module-level dict `counters`: key -> Counter
    columns,    \* SpecBind: parent table, per field name: primary key -> value
    built,      \* SpecBind: the latest Counter(...) call and how it ended
    started     \* SpecBind: start-up is over, child events are delivered

bindvars == <<receivers, counters, columns, built, started>>
vars == <<child, counter, last, failed, pending, applied, bindvars>>

\* a child that has no row: not yet saved, or deleted
Absent == [persisted |-> FALSE, parent |-> 1, q |-> FALSE]

\* the state of a child instance as the change event carries it
ChildState(p, q) == [parent |-> p, q |-> q]

\* ------------------------------------------------------- Counter (code)

\* Counter.parent_id: getattr(child, self.foreign_field.attname)
parent_id(inst) == inst.parent

\* variant: compares the two instance objects, which are never the same object
has_parent_changed_objects(new, old) == TRUE

\* Counter.has_parent_changed
has_parent_changed(new, old) == parent_id(old) # parent_id(new)

\* self.is_in_counter: the qualification callback, a pure function of the
\* instance's fields (here: of its field q)
is_in_counter(inst) == inst.q

\* variant: increments whenever the new state qualifies
inc_branch_always(instance, is_in, was_in, changed) ==
    IF is_in
    THEN << [child |-> instance, amount |-> 1] >>
    ELSE << >>

\* Counter.receive_change, lines 79-81: the increment of the new parent
inc_branch(instance, is_in, was_in, changed) ==
    IF is_in /\ (changed \/ ~was_in)
    THEN << [child |-> instance, amount |-> 1] >>
    ELSE << >>

\* variant: the reparent branch locates the parent through the new state
dec_branch_new_parent(instance, old_instance, is_in, was_in, changed) ==
    IF was_in
    THEN IF changed \/ ~is_in
         THEN << [child |-> instance, amount |-> -1] >>
         ELSE << >>
    ELSE << >>

\* variant: the parent change is tested before was_in_counter
dec_branch_changed_first(instance, old_instance, is_in, was_in, changed) ==
    IF changed
    THEN << [child |-> old_instance, amount |-> -1] >>
    ELSE IF was_in /\ ~is_in
         THEN << [child |-> instance, amount |-> -1] >>
         ELSE << >>

\* Counter.receive_change, lines 83-87: the decrement
dec_branch(instance, old_instance, is_in, was_in, changed) ==
    IF was_in
    THEN IF changed
         THEN << [child |-> old_instance, amount |-> -1] >>
         ELSE IF ~is_in
              THEN << [child |-> instance, amount |-> -1] >>
              ELSE << >>
    ELSE << >>

\* variant: the decrement is made before the increment
receive_change_dec_first(instance, old_instance, was_persisted, is_persisted) ==
    LET changed == has_parent_changed(instance, old_instance)
        was_in  == was_persisted /\ is_in_counter(old_instance)
        is_in   == is_persisted /\ is_in_counter(instance)
    IN  dec_branch(instance, old_instance, is_in, was_in, changed)
        \o inc_branch(instance, is_in, was_in, changed)

\* variant: was_in_counter does not ask changes.was_persisted()
receive_change_no_was_persisted(instance, old_instance, was_persisted, is_persisted) ==
    LET changed == has_parent_changed(instance, old_instance)
        was_in  == is_in_counter(old_instance)
        is_in   == is_persisted /\ is_in_counter(instance)
    IN  inc_branch(instance, is_in, was_in, changed)
        \o dec_branch(instance, old_instance, is_in, was_in, changed)

\* variant: is_in_counter does not ask changes.is_persisted()
receive_change_no_is_persisted(instance, old_instance, was_persisted, is_persisted) ==
    LET changed == has_parent_changed(instance, old_instance)
        was_in  == was_persisted /\ is_in_counter(old_instance)
        is_in   == is_in_counter(instance)
    IN  inc_branch(instance, is_in, was_in, changed)
        \o dec_branch(instance, old_instance, is_in, was_in, changed)

\* Counter.receive_change: the increment(child, amount) calls it makes, in
\* program order.  was_persisted / is_persisted are changes.was_persisted()
\* and changes.is_persisted(); `and` short-circuits, so the callback is not
\* consulted when the flag is false.
receive_change(instance, old_instance, was_persisted, is_persisted) ==
    LET changed == has_parent_changed(instance, old_instance)
        was_in  == was_persisted /\ is_in_counter(old_instance)
        is_in   == is_persisted /\ is_in_counter(instance)
    IN  inc_branch(instance, is_in, was_in, changed)
        \o dec_branch(instance, old_instance, is_in, was_in, changed)

\* variant: the new value is computed by the client from the counter it read
F_plus_client(row, mem, amount) == mem + amount

\* F(self.counter_name) + amount: resolved by the storage against the value
\* the row holds when the UPDATE runs (row), not against a value the client
\* holds in memory (mem)
F_plus(row, mem, amount) == row + amount

\* variant: the row is created when no row matches
set_counter_field_upsert(table, pid, mem, amount) ==
    [p \in DOMAIN table \cup {pid} |->
        IF p = pid
        THEN IF p \in DOMAIN table THEN table[p] + amount ELSE amount
        ELSE table[p]]

\* Counter.set_counter_field: filter(pk=parent_id).update(counter=value);
\* only a row whose primary key matches is written, none is created
set_counter_field(table, pid, mem, amount) ==
    [p \in DOMAIN table |->
        IF p = pid THEN F_plus(table[p], mem, amount) ELSE table[p]]

\* the return value of QuerySet.update: the number of rows matched
rows_matched(table, pid) == Cardinality({p \in DOMAIN table : p = pid})

\* Counter.increment
increment(table, inst, mem, amount) ==
    set_counter_field(table, parent_id(inst), mem, amount)

\* the value of the parent's counter as a client reads it from `table`
read_counter(table, pid) == IF pid \in DOMAIN table THEN table[pid] ELSE 0

\* variant: a storage error is caught and the remaining calls are still made
RECURSIVE run_calls_swallow(_, _, _, _, _)
run_calls_swallow(table, calls, i, failAt, issued) ==
    IF i > Len(calls)
    THEN [table |-> table, issued |-> issued, error |-> FALSE]
    ELSE LET pid == parent_id(calls[i].child)
             amt == calls[i].amount
         IN  IF i = failAt
             THEN run_calls_swallow(
                    table, calls, i + 1, failAt,
                    Append(issued, [pid |-> pid, amount |-> amt,
                                    rows |-> 0, raised |-> TRUE]))
             ELSE run_calls_swallow(
                    increment(table, calls[i].child, read_counter(table, pid), amt),
                    calls, i + 1, failAt,
                    Append(issued, [pid |-> pid, amount |-> amt,
                                    rows |-> rows_matched(table, pid),
                                    raised |-> FALSE]))

\* The body of receive_change from its i-th increment call on, run to the
\* end against `table`.  failAt = i means the i-th UPDATE raises a storage
\* error: the statement changes nothing and the exception leaves
\* receive_change (there is no try/except), so no later call is issued.
RECURSIVE run_calls(_, _, _, _, _)
run_calls(table, calls, i, failAt, issued) ==
    IF i > Len(calls)
    THEN [table |-> table, issued |-> issued, error |-> FALSE]
    ELSE LET pid == parent_id(calls[i].child)
             amt == calls[i].amount
         IN  IF i = failAt
             THEN [table |-> table,
                   issued |-> Append(issued, [pid |-> pid, amount |-> amt,
                                              rows |-> 0, raised |-> TRUE]),
                   error |-> TRUE]
             ELSE run_calls(
                    increment(table, calls[i].child, read_counter(table, pid), amt),
                    calls, i + 1, failAt,
                    Append(issued, [pid |-> pid, amount |-> amt,
                                    rows |-> rows_matched(table, pid),
                                    raised |-> FALSE]))

\* ------------------------------------------------ Counter construction (code)

MaxBindings == 2

\* the fields of the parent model: two CounterFields and a field of another type
ParentFields == [n_all |-> "CounterField", n_q |-> "CounterField", title |-> "CharField"]
\* counter_name arguments: the declared fields and a name the model does not declare
CounterNameArgs == DOMAIN ParentFields \cup {"nope"}
\* foreign_field arguments:
\*   "fk"      a related-object descriptor whose .field is a ForeignKey
\*   "generic" a GenericForeignKey
\*   "other"   an object whose .field is a field that is no ForeignKey
\*   "nofield" an object whose .field is None
\*   "noattr"  an object that has no attribute `field` (a str, a Field)
Descriptors == {"fk", "generic", "other", "nofield", "noattr"}
\* parent_model arguments: the parent model, or None
ParentModelArgs == {"Parent", "None"}
\* is_in_counter arguments: None (every instance qualifies) or a callback on q
PredArgs == {"default", "q"}

NoCall == [error |-> "none", counter_name |-> "", foreign_field |-> "",
           parent_model |-> "", pred |-> "",
           receivers_before |-> << >>, counters_before |-> << >>]

\* parent_model._meta.get_field_by_name(counter_name): the field's type, or
\* FieldDoesNotExist when the model declares no such field
get_field_by_name(name) ==
    IF name \in DOMAIN ParentFields THEN ParentFields[name] ELSE "FieldDoesNotExist"

\* variant: any declared field is accepted
validate_any_field(b) ==
    IF b.parent_model = "None" THEN "AttributeError"
    ELSE IF get_field_by_name(b.counter_name) = "FieldDoesNotExist" THEN "FieldDoesNotExist"
    ELSE "ok"

\* Counter.validate: the error it raises, or "ok"
validate(b) ==
    IF b.parent_model = "None" THEN "AttributeError"
    ELSE IF get_field_by_name(b.counter_name) = "FieldDoesNotExist" THEN "FieldDoesNotExist"
    ELSE IF get_field_by_name(b.counter_name) # "CounterField" THEN "TypeError"
    ELSE "ok"

\* the key of Counter.connect: parent model name, child model name,
\* foreign_field.name and counter_name
counted_name(b) == <<b.parent_model, "Child", b.foreign_field, b.counter_name>>

\* counters[counted_name] = self
dict_set(reg, k, v) ==
    [x \in DOMAIN reg \cup {k} |-> IF x = k THEN v ELSE reg[x]]

\* variant: the receiver is connected and registered before validation
connect_validate_last(b, recv, reg) ==
    [error |-> validate(b),
     receivers |-> Append(recv, b),
     counters |-> dict_set(reg, counted_name(b), b)]

\* variant: the receiver is connected under a dispatch_uid made of the key
connect_dispatch_uid(b, recv, reg) ==
    IF validate(b) # "ok"
    THEN [error |-> validate(b), receivers |-> recv, counters |-> reg]
    ELSE [error |-> "ok",
          receivers |-> IF \E i \in 1..Len(recv) : counted_name(recv[i]) = counted_name(b)
                        THEN recv ELSE Append(recv, b),
          counters |-> dict_set(reg, counted_name(b), b)]

\* Counter.connect: validate, then post_change.connect(receiver, weak=False)
\* with a new closure, then counters[counted_name] = self
connect(b, recv, reg) ==
    IF validate(b) # "ok"
    THEN [error |-> validate(b), receivers |-> recv, counters |-> reg]
    ELSE [error |-> "ok",
          receivers |-> Append(recv, b),
          counters |-> dict_set(reg, counted_name(b), b)]

\* the Counter that __init__ has set up when it calls connect; both kinds of
\* reference resolve to the child's column that holds the parent id
binding(name, pm, pred) ==
    [counter_name |-> name, parent_model |-> pm, foreign_field |-> "parent", pred |-> pred]

\* variant: the GenericForeignKey branch does not ask for parent_model
Counter_init_no_parent_check(name, descr, pm, pred, recv, reg) ==
    IF descr = "generic"
    THEN connect(binding(name, pm, pred), recv, reg)
    ELSE IF descr = "noattr"
    THEN [error |-> "AttributeError", receivers |-> recv, counters |-> reg]
    ELSE IF descr = "fk"
    THEN connect(binding(name, "Parent", pred), recv, reg)
    ELSE [error |-> "TypeError", receivers |-> recv, counters |-> reg]

\* Counter.__init__: the error it raises (or "ok") and the receivers and the
\* registry it leaves.  A ForeignKey's rel.to is the parent model, given or not.
Counter_init(name, descr, pm, pred, recv, reg) ==
    IF descr = "generic"
    THEN IF pm = "None"
         THEN [error |-> "ImproperlyConfigured", receivers |-> recv, counters |-> reg]
         ELSE connect(binding(name, pm, pred), recv, reg)
    ELSE IF descr = "noattr"
    THEN [error |-> "AttributeError", receivers |-> recv, counters |-> reg]
    ELSE IF descr = "fk"
    THEN connect(binding(name, "Parent", pred), recv, reg)
    ELSE [error |-> "TypeError", receivers |-> recv, counters |-> reg]

\* variant: every receiver calls the callback that was given last
qualifies_shared(b, inst, recv) ==
    IF recv[Len(recv)].pred = "default" THEN TRUE ELSE is_in_counter(inst)

\* b.is_in_counter(inst): the default callback, or the one given
qualifies(b, inst, recv) ==
    IF b.pred = "default" THEN TRUE ELSE is_in_counter(inst)

\* the instance as receive_change of binding b reads it: its parent id and
\* the value of b's callback on it
seen_by(b, inst, recv) == ChildState(parent_id(inst), qualifies(b, inst, recv))

\* post_change.send: every connected receiver runs its receive_change, in
\* connection order, each on the column its Counter names
RECURSIVE deliver(_, _, _, _, _, _, _)
deliver(cols, recv, i, instance, old, was, is) ==
    IF i > Len(recv) THEN cols
    ELSE LET b == recv[i]
             calls == receive_change(seen_by(b, instance, recv), seen_by(b, old, recv), was, is)
             next == IF b.counter_name \in DOMAIN cols
                     THEN [cols EXCEPT ![b.counter_name] =
                                run_calls(@, calls, 1, 0, << >>).table]
                     ELSE cols
         IN  deliver(next, recv, i + 1, instance, old, was, is)

\* ------------------------------------------------------------------ Init

NoEvent ==
    [kind |-> "none", c |-> 0,
     instance |-> ChildState(1, FALSE), old |-> ChildState(1, FALSE),
     was |-> FALSE, is |-> FALSE,
     issued |-> << >>, error |-> FALSE,
     before |-> [p \in ParentIds |-> 0], after |-> [p \in ParentIds |-> 0]]

Init ==
    /\ child = [c \in Children |-> Absent]
    /\ counter = [p \in ParentIds |-> 0]
    /\ last = NoEvent
    /\ failed = FALSE
    /\ pending = [c \in Children |-> << >>]
    /\ applied = [p \in ParentIds |-> 0]
    /\ receivers = << >>
    /\ counters = << >>
    /\ columns = [f \in DOMAIN ParentFields |-> [p \in ParentIds |-> 0]]
    /\ built = NoCall
    /\ started = FALSE

\* ------------------------------------------------- Spec: one event at a time

\* variant: the UPDATEs of one receive_change are undone when one of them raises
ChangeEvent_atomic(c, kind, instance, old, was, is, failAt) ==
    LET calls == receive_change(instance, old, was, is)
        r == run_calls(counter, calls, 1, failAt, << >>)
        result == IF r.error THEN counter ELSE r.table
    IN  /\ last = NoEvent
        /\ failAt \in 0..Len(calls)
        /\ counter' = result
        /\ failed' = r.error
        /\ last' = [kind |-> kind, c |-> c, instance |-> instance, old |-> old,
                    was |-> was, is |-> is, issued |-> r.issued, error |-> r.error,
                    before |-> counter, after |-> result]
        /\ UNCHANGED <<pending, applied, bindvars>>

\* the post_change receiver: receive_change(instance, changes) run to its end
ChangeEvent(c, kind, instance, old, was, is, failAt) ==
    LET calls == receive_change(instance, old, was, is)
        r == run_calls(counter, calls, 1, failAt, << >>)
    IN  /\ last = NoEvent
        /\ failAt \in 0..Len(calls)
        /\ counter' = r.table
        /\ failed' = r.error
        /\ last' = [kind |-> kind, c |-> c, instance |-> instance, old |-> old,
                    was |-> was, is |-> is, issued |-> r.issued, error |-> r.error,
                    before |-> counter, after |-> r.table]
        /\ UNCHANGED <<pending, applied, bindvars>>

\* save() of an instance that has no row.  The old state is the instance as
\* it was constructed (or deleted): any parent, any q.
Insert(c) ==
    /\ ~child[c].persisted
    /\ \E p \in ParentIds, q \in BOOLEAN, oldp \in ParentRefs, oldq \in BOOLEAN, failAt \in 0..2 :
        /\ child' = [child EXCEPT ![c] = [persisted |-> TRUE, parent |-> p, q |-> q]]
        /\ ChangeEvent(c, "insert", ChildState(p, q), ChildState(oldp, oldq),
                       FALSE, TRUE, failAt)

\* save() of an instance that has a row: same values, a flip of the
\* predicate, a new parent, or both
Update(c) ==
    /\ child[c].persisted
    /\ \E p \in ParentIds, q \in BOOLEAN, failAt \in 0..2 :
        /\ child' = [child EXCEPT ![c] = [persisted |-> TRUE, parent |-> p, q |-> q]]
        /\ ChangeEvent(c, "update", ChildState(p, q),
                       ChildState(child[c].parent, child[c].q), TRUE, TRUE, failAt)

\* delete() of an instance that has a row; the instance in memory may carry
\* unsaved changes of its fields
Delete(c) ==
    /\ child[c].persisted
    /\ \E p \in ParentIds, q \in BOOLEAN, failAt \in 0..2 :
        /\ child' = [child EXCEPT ![c] = Absent]
        /\ ChangeEvent(c, "delete", ChildState(p, q),
                       ChildState(child[c].parent, child[c].q), TRUE, FALSE, failAt)

\* a parent row is deleted while children still hold its id
DeleteParent(p) ==
    /\ last = NoEvent
    /\ p \in DOMAIN counter
    /\ counter' = [x \in DOMAIN counter \ {p} |-> counter[x]]
    /\ UNCHANGED <<child, last, failed, pending, applied, bindvars>>

\* save()/delete() returns to its caller: the event and the locals of
\* receive_change are gone.  After a storage error the exception is with the
\* caller and the run is not followed further.
Return ==
    /\ last # NoEvent
    /\ ~failed
    /\ last' = NoEvent
    /\ UNCHANGED <<child, counter, failed, pending, applied, bindvars>>

Next ==
    \/ \E c \in Children : Insert(c)
    \/ \E c \in Children : Update(c)
    \/ \E c \in Children : Delete(c)
    \/ \E p \in ParentIds : DeleteParent(p)
    \/ Return

Spec == Init /\ [][Next]_vars

\* ------------------------------------- SpecConc: events of different children

\* The UPDATE statements of one receive_change (Counter.increment resolves
\* the parent id of the child it is given), each with the value of the
\* parent's counter as the client could read it when the event was delivered.
stamp(calls, table) ==
    [i \in 1..Len(calls) |->
        [pid |-> parent_id(calls[i].child), amount |-> calls[i].amount,
         mem |-> read_counter(table, parent_id(calls[i].child))]]

\* A save()/delete() of child c commits and its receive_change starts; the
\* child has no other event in flight (events of one child are not concurrent).
Submit(c, row, instance, old, was, is) ==
    /\ pending[c] = << >>
    /\ child' = [child EXCEPT ![c] = row]
    /\ pending' = [pending EXCEPT ![c] = stamp(receive_change(instance, old, was, is), counter)]
    /\ UNCHANGED <<counter, applied, last, failed, bindvars>>

ConcInsert(c) ==
    /\ ~child[c].persisted
    /\ \E p \in ParentIds, q \in BOOLEAN :
        Submit(c, [persisted |-> TRUE, parent |-> p, q |-> q],
               ChildState(p, q), ChildState(None, FALSE), FALSE, TRUE)

ConcUpdate(c) ==
    /\ child[c].persisted
    /\ \E p \in ParentIds, q \in BOOLEAN :
        Submit(c, [persisted |-> TRUE, parent |-> p, q |-> q],
               ChildState(p, q), ChildState(child[c].parent, child[c].q), TRUE, TRUE)

ConcDelete(c) ==
    /\ child[c].persisted
    /\ Submit(c, Absent,
              ChildState(child[c].parent, child[c].q),
              ChildState(child[c].parent, child[c].q), TRUE, FALSE)

\* The storage executes the next UPDATE statement of c's receive_change; the
\* statement is atomic, statements of different events interleave freely.
ExecUpdate(c) ==
    /\ pending[c] # << >>
    /\ LET call == Head(pending[c])
       IN  /\ counter' = set_counter_field(counter, call.pid, call.mem, call.amount)
           /\ applied' = [p \in DOMAIN applied |->
                            IF p = call.pid /\ rows_matched(counter, call.pid) > 0
                            THEN applied[p] + call.amount ELSE applied[p]]
    /\ pending' = [pending EXCEPT ![c] = Tail(pending[c])]
    /\ UNCHANGED <<child, last, failed, bindvars>>

NextConc ==
    \/ \E c \in Children : ConcInsert(c)
    \/ \E c \in Children : ConcUpdate(c)
    \/ \E c \in Children : ConcDelete(c)
    \/ \E c \in Children : ExecUpdate(c)

SpecConc == Init /\ [][NextConc]_vars

\* ------------------------------ SpecBind: construction, then child events

\* a Counter(...) call at start-up
Construct ==
    /\ ~started
    /\ Len(receivers) < MaxBindings
    /\ \E name \in CounterNameArgs, descr \in Descriptors,
          pm \in ParentModelArgs, pred \in PredArgs :
        LET r == Counter_init(name, descr, pm, pred, receivers, counters)
        IN  /\ receivers' = r.receivers
            /\ counters' = r.counters
            /\ built' = [error |-> r.error, counter_name |-> name, foreign_field |-> descr,
                         parent_model |-> pm, pred |-> pred,
                         receivers_before |-> receivers, counters_before |-> counters]
    /\ UNCHANGED <<child, counter, last, failed, pending, applied, columns, started>>

\* start-up ends
Start ==
    /\ ~started
    /\ started' = TRUE
    /\ built' = NoCall
    /\ UNCHANGED <<child, counter, last, failed, pending, applied,
                   receivers, counters, columns>>

\* a save()/delete() of child c and the post_change it sends
BindEvent(c, row, instance, old, was, is) ==
    /\ started
    /\ child' = [child EXCEPT ![c] = row]
    /\ columns' = deliver(columns, receivers, 1, instance, old, was, is)
    /\ UNCHANGED <<counter, last, failed, pending, applied,
                   receivers, counters, built, started>>

BindInsert(c) ==
    /\ ~child[c].persisted
    /\ \E p \in ParentIds, q \in BOOLEAN :
        BindEvent(c, [persisted |-> TRUE, parent |-> p, q |-> q],
                  ChildState(p, q), ChildState(None, FALSE), FALSE, TRUE)

BindUpdate(c) ==
    /\ child[c].persisted
    /\ \E p \in ParentIds, q \in BOOLEAN :
        BindEvent(c, [persisted |-> TRUE, parent |-> p, q |-> q],
                  ChildState(p, q), ChildState(child[c].parent, child[c].q), TRUE, TRUE)

BindDelete(c) ==
    /\ child[c].persisted
    /\ BindEvent(c, Absent,
                 ChildState(child[c].parent, child[c].q),
                 ChildState(child[c].parent, child[c].q), TRUE, FALSE)

NextBind ==
    \/ Construct
    \/ Start
    \/ \E c \in Children : BindInsert(c)
    \/ \E c \in Children : BindUpdate(c)
    \/ \E c \in Children : BindDelete(c)

SpecBind == Init /\ [][NextBind]_vars

\* ------------------------------------------------------------ properties

Quiescent == \A c \in Children : pending[c] = << >>

\* the persisted children that reference parent P and satisfy the predicate
Counted(P) == {c \in Children : child[c].persisted /\ child[c].parent = P /\ child[c].q}

\* C1: starting from counters 0 and no children, whenever every
\* receive_change call has completed (no UPDATE is outstanding), the counter
\* of every parent equals the number of persisted children that reference it
\* and satisfy the predicate, whatever operations led there (SpecConc: all
\* parent rows present, no storage error).
C1_QuiescentCounterIsCount ==
    Quiescent => \A P \in ParentIds : counter[P] = Cardinality(Counted(P))

\* two qualifying children under parent 2, nothing in flight
C1_Witness ==
    /\ Quiescent
    /\ Cardinality(Counted(2)) = 2
    /\ counter[2] = 2

\* C2: under every interleaving of the UPDATE statements of concurrent
\* events, each parent's counter is its initial value 0 plus the sum of the
\* deltas of the UPDATEs executed on its row: no update is lost.
C2_NoLostUpdate ==
    \A P \in ParentIds : counter[P] = 0 + applied[P]

\* an event's UPDATE is outstanding on a row that the UPDATE of another
\* child's event has changed since this event was delivered
C2_Witness ==
    \E c \in Children :
        /\ pending[c] # << >>
        /\ Head(pending[c]).mem # counter[Head(pending[c]).pid]
        /\ applied[Head(pending[c]).pid] # 0

\* ---- properties of one delivered change event (Spec)

Delivered == last.kind # "none"
NewP == last.instance.parent
OldP == last.old.parent
Issued == last.issued
\* the UPDATE calls receive_change made, as <<parent id, amount>>, in order
Calls == [i \in 1..Len(Issued) |-> <<Issued[i].pid, Issued[i].amount>>]
\* a persisted child that qualifies before and after is moved to another parent
ReparentBoth ==
    /\ last.kind = "update"
    /\ last.old.q /\ last.instance.q
    /\ OldP # NewP
BothRows == {OldP, NewP} \subseteq DOMAIN last.before
\* the sum of the amounts of the calls on parent x that did not raise
RECURSIVE Net(_, _)
Net(calls, x) ==
    IF calls = << >> THEN 0
    ELSE (IF Head(calls).pid = x /\ ~Head(calls).raised THEN Head(calls).amount ELSE 0)
         + Net(Tail(calls), x)

\* C3 as stated: on a reparent of a child that qualifies before and after,
\* receive_change issues exactly two update calls, first -1 on the old
\* parent, then +1 on the new parent.
C3_DecrementThenIncrement ==
    (ReparentBoth /\ ~last.error) => Calls = << <<OldP, -1>>, <<NewP, 1>> >>

\* C3 amended: on a reparent of a child that qualifies before and after,
\* receive_change issues exactly two update calls, first +1 on the new
\* parent, then -1 on the old parent.
C3_IncrementThenDecrement ==
    (ReparentBoth /\ ~last.error) => Calls = << <<NewP, 1>>, <<OldP, -1>> >>

\* a completed reparent whose two UPDATEs each matched a row
C3_Witness ==
    /\ ReparentBoth /\ ~last.error
    /\ Len(Issued) = 2
    /\ Issued[1].rows = 1 /\ Issued[2].rows = 1

\* C4: a fresh insert issues one +1 on the instance's parent when the
\* predicate holds on the instance and nothing when it does not; no other
\* counter changes and no decrement is issued.
C4_Insert ==
    (last.kind = "insert" /\ ~last.error) =>
        /\ Calls = IF last.instance.q THEN << <<NewP, 1>> >> ELSE << >>
        /\ last.after = [x \in DOMAIN last.before |->
                            IF x = NewP /\ last.instance.q
                            THEN last.before[x] + 1 ELSE last.before[x]]

\* a qualifying insert whose state at construction had another parent and
\* also satisfied the predicate
C4_Witness ==
    /\ last.kind = "insert" /\ ~last.error
    /\ last.instance.q /\ last.old.q /\ OldP # NewP
    /\ NewP \in DOMAIN last.before
    /\ last.after[NewP] = last.before[NewP] + 1

\* C5: a delete issues one -1 on the parent of the prior state when the
\* predicate held on the prior state and nothing otherwise, whatever the
\* predicate says about the state after the delete.
C5_Delete ==
    (last.kind = "delete" /\ ~last.error) =>
        /\ Calls = IF last.old.q THEN << <<OldP, -1>> >> ELSE << >>
        /\ last.after = [x \in DOMAIN last.before |->
                            IF x = OldP /\ last.old.q
                            THEN last.before[x] - 1 ELSE last.before[x]]

\* a qualifying child is deleted; the instance handed over still satisfies
\* the predicate
C5_Witness ==
    /\ last.kind = "delete" /\ ~last.error
    /\ last.old.q /\ last.instance.q
    /\ OldP \in DOMAIN last.before
    /\ last.after[OldP] = last.before[OldP] - 1

\* C6: an update that keeps the parent changes that parent's counter by +1
\* when the predicate flips false to true, by -1 when it flips true to
\* false, and by 0 (no call at all) when the predicate value is unchanged.
C6_SameParentUpdate ==
    (last.kind = "update" /\ NewP = OldP /\ ~last.error) =>
        /\ Calls = IF last.instance.q = last.old.q THEN << >>
                   ELSE IF last.instance.q THEN << <<NewP, 1>> >>
                   ELSE << <<NewP, -1>> >>
        /\ last.after = [x \in DOMAIN last.before |->
                            IF x = NewP
                            THEN last.before[x]
                                 + (IF last.instance.q THEN 1 ELSE 0)
                                 - (IF last.old.q THEN 1 ELSE 0)
                            ELSE last.before[x]]

\* a counted child is saved again, still qualifying, under the same parent
C6_Witness ==
    /\ last.kind = "update" /\ ~last.error
    /\ NewP = OldP /\ last.old.q /\ last.instance.q
    /\ NewP \in DOMAIN last.before
    /\ last.before[NewP] >= 1
    /\ last.after = last.before

\* C7: when a child that was counted at its old parent changes parent and is
\* not counted at the new one, exactly one adjustment is issued: -1 on the
\* parent of the prior state; the new parent's counter is not touched.
C7_ReparentStopsQualifying ==
    (/\ Delivered /\ ~last.error
     /\ last.was /\ last.old.q
     /\ OldP # NewP
     /\ ~(last.is /\ last.instance.q)) =>
        /\ Calls = << <<OldP, -1>> >>
        /\ last.after = [x \in DOMAIN last.before |->
                            IF x = OldP THEN last.before[x] - 1 ELSE last.before[x]]

\* an update moves a counted child to an existing parent and clears its flag
C7_Witness ==
    /\ last.kind = "update" /\ ~last.error
    /\ last.old.q /\ ~last.instance.q /\ OldP # NewP
    /\ BothRows
    /\ last.after[OldP] = last.before[OldP] - 1
    /\ last.after[NewP] = last.before[NewP]

\* C8: one receive_change call issues at most one +1 and at most one -1;
\* both only when the parent id changed and the child qualifies before and
\* after, and then on two different parent ids.
C8_AtMostOneEach ==
    Delivered =>
        LET incs == {i \in 1..Len(Issued) : Issued[i].amount = 1}
            decs == {i \in 1..Len(Issued) : Issued[i].amount = -1}
        IN  /\ Cardinality(incs) <= 1
            /\ Cardinality(decs) <= 1
            /\ incs \cup decs = 1..Len(Issued)
            /\ (incs # {} /\ decs # {}) =>
                  /\ OldP # NewP
                  /\ last.was /\ last.old.q /\ last.is /\ last.instance.q
            /\ \A i \in incs, j \in decs : Issued[i].pid # Issued[j].pid

\* a call that issued both adjustments
C8_Witness ==
    /\ Delivered
    /\ \E i, j \in 1..Len(Issued) :
          /\ Issued[i].amount = 1 /\ Issued[j].amount = -1
          /\ Issued[i].pid # Issued[j].pid

\* C9: an UPDATE whose parent id matches no row affects zero rows, raises
\* nothing, creates no row and leaves every existing counter as it is; the
\* other adjustment of a reparent is still applied.
C9_MissingRow ==
    Delivered =>
        /\ DOMAIN last.after = DOMAIN last.before
        /\ last.error => \E i \in 1..Len(Issued) : Issued[i].raised
        /\ \A i \in 1..Len(Issued) :
              (Issued[i].pid \notin DOMAIN last.before /\ ~Issued[i].raised)
                => Issued[i].rows = 0
        /\ \A x \in DOMAIN last.before :
              last.after[x] = last.before[x] + Net(Issued, x)
        /\ (ReparentBoth /\ ~last.error) =>
              /\ Len(Issued) = 2
              /\ \A i \in 1..2 :
                    Issued[i].pid \in DOMAIN last.before => Issued[i].rows = 1

\* a reparent to a parent whose row is gone: the +1 matches nothing, the -1
\* on the old parent is applied
C9_Witness ==
    /\ ReparentBoth /\ ~last.error
    /\ NewP \notin DOMAIN last.before
    /\ OldP \in DOMAIN last.before
    /\ Issued[1].rows = 0
    /\ last.after[OldP] = last.before[OldP] - 1

\* C10 as stated: when one of the two update calls of a reparent fails,
\* exactly one of the two counters is left updated, whichever call it is
\* that fails.
C10_ExactlyOneUpdated ==
    (ReparentBoth /\ BothRows /\ last.error) =>
        ((last.after[NewP] # last.before[NewP])
            # (last.after[OldP] # last.before[OldP]))

\* C10 amended: in a reparent that requires both adjustments (both parent
\* rows present), when the second call, the decrement, fails, the new
\* parent's counter stays incremented and the old parent's counter is not
\* decremented (nothing undoes the increment); when the first call, the
\* increment, fails, the decrement is never issued and neither counter is
\* updated.
C10_PartialOnlyWhenDecrementFails ==
    (ReparentBoth /\ BothRows /\ last.error) =>
        /\ Issued[Len(Issued)].raised
        /\ Issued[Len(Issued)].amount = 1 =>
              /\ Calls = << <<NewP, 1>> >>
              /\ last.after = last.before
        /\ Issued[Len(Issued)].amount = -1 =>
              /\ Calls = << <<NewP, 1>>, <<OldP, -1>> >>
              /\ last.after = [last.before EXCEPT ![NewP] = @ + 1]

\* the decrement of a reparent raised after the increment was applied
C10_Witness ==
    /\ ReparentBoth /\ BothRows /\ last.error
    /\ Len(Issued) = 2
    /\ last.after[NewP] = last.before[NewP] + 1
    /\ last.after[OldP] = last.before[OldP]

\* C11: a failure of an UPDATE propagates out of receive_change to the
\* caller of the save/delete: the call that raised is the last call made (no
\* retry of it, no further update after it), the caller holds the error, and
\* the counters carry exactly the calls made before it.
C11_FailurePropagates ==
    Delivered =>
        /\ \A i \in 1..Len(Issued) : Issued[i].raised => (i = Len(Issued) /\ last.error)
        /\ last.error => (failed /\ Issued # << >> /\ Issued[Len(Issued)].raised)
        /\ \A x \in DOMAIN last.before :
              last.after[x] = last.before[x] + Net(Issued, x)

\* the increment of a reparent raised: the decrement was never issued
C11_Witness ==
    /\ ReparentBoth /\ BothRows
    /\ last.error /\ failed
    /\ Len(Issued) = 1 /\ Issued[1].raised
    /\ last.after = last.before

\* C15: reparenting a persisted child that qualifies neither before nor
\* after the move issues no update call and changes no counter.
C15_ReparentNonQualifying ==
    (/\ last.kind = "update"
     /\ OldP # NewP
     /\ ~last.old.q /\ ~last.instance.q) =>
        /\ Issued = << >>
        /\ ~last.error
        /\ last.after = last.before

\* a non-qualifying child is moved between two existing parents, the old one
\* having a counted child
C15_Witness ==
    /\ last.kind = "update"
    /\ OldP # NewP
    /\ ~last.old.q /\ ~last.instance.q
    /\ BothRows
    /\ last.before[OldP] >= 1
    /\ last.after = last.before

\* C16: when was-persisted is false, receive_change never issues a decrement
\* and issues +1 on the instance's parent iff is-persisted and the predicate
\* hold on the instance, however the parent ids of the old and the new state
\* compare.
C16_NoPriorState ==
    (Delivered /\ ~last.was) =>
        /\ \A i \in 1..Len(Issued) : Issued[i].amount # -1
        /\ Calls = IF last.is /\ last.instance.q
                   THEN << <<NewP, 1>> >> ELSE << >>

\* an insert whose old state names another existing parent and satisfies
\* the predicate: that parent's counter is left alone
C16_Witness ==
    /\ Delivered /\ ~last.was /\ ~last.error
    /\ last.old.q /\ last.instance.q
    /\ OldP # NewP /\ BothRows
    /\ last.after[OldP] = last.before[OldP]
    /\ last.after[NewP] = last.before[NewP] + 1

\* ---- properties of construction and of several bindings (SpecBind)

Built == built.error # "none"
\* the Counter(...) call got as far as Counter.validate with a parent model
ReachedValidate ==
    /\ Built
    /\ \/ built.foreign_field = "fk"
       \/ built.foreign_field = "generic" /\ built.parent_model # "None"
NothingRegistered ==
    /\ receivers = built.receivers_before
    /\ counters = built.counters_before
\* the persisted children under parent P that a callback `pred` counts
CountFor(pred, P) ==
    Cardinality({c \in Children :
        /\ child[c].persisted /\ child[c].parent = P
        /\ (pred = "default" \/ child[c].q)})
\* what the receivers recv[1..n] together have added to field `name` of P
RECURSIVE Expected(_, _, _, _)
Expected(recv, n, name, P) ==
    IF n = 0 THEN 0
    ELSE (IF recv[n].counter_name = name THEN CountFor(recv[n].pred, P) ELSE 0)
         + Expected(recv, n - 1, name, P)
Zero == [p \in ParentIds |-> 0]

\* C12: Counter(...) with a GenericForeignKey and no parent_model raises
\* ImproperlyConfigured, and leaves the receivers of post_change and the
\* registry `counters` as they were.
C12_GenericNeedsParent ==
    (Built /\ built.foreign_field = "generic" /\ built.parent_model = "None") =>
        /\ built.error = "ImproperlyConfigured"
        /\ NothingRegistered

\* such a call was made after a Counter had been registered
C12_Witness ==
    /\ built.error = "ImproperlyConfigured"
    /\ built.foreign_field = "generic" /\ built.parent_model = "None"
    /\ Len(built.receivers_before) = 1
    /\ Len(receivers) = 1

\* C13 as stated: construction fails with a type error whenever the named
\* counter attribute is not a CounterField of the parent model, whether it
\* has another type or is absent.
C13_TypeErrorWhenever ==
    (ReachedValidate /\ get_field_by_name(built.counter_name) # "CounterField") =>
        built.error = "TypeError"

\* C13 amended: construction fails with a type error when the named counter
\* attribute exists on the parent model with another type; when the
\* attribute is absent it fails with the field lookup's own error
\* (FieldDoesNotExist); it succeeds when the attribute is a CounterField.
C13_ValidateErrors ==
    ReachedValidate =>
        built.error =
            IF built.counter_name \notin DOMAIN ParentFields THEN "FieldDoesNotExist"
            ELSE IF ParentFields[built.counter_name] # "CounterField" THEN "TypeError"
            ELSE "ok"

\* a ForeignKey-based Counter named after the CharField
C13_Witness ==
    /\ built.error = "TypeError"
    /\ built.foreign_field = "fk"
    /\ built.counter_name = "title"

\* C14: Counter(...) with a foreign_field that is neither ForeignKey-based
\* nor a GenericForeignKey raises TypeError, for every such object.
C14_TypeErrorForEveryOther ==
    (Built /\ built.foreign_field \notin {"fk", "generic"}) =>
        built.error = "TypeError"

\* C17: binding the same key twice leaves two receivers connected, each of
\* which adjusts the counter on every event (the field holds the sum of what
\* every receiver on it counts, twice the count for two equal bindings),
\* while `counters` holds one entry per key, the binding registered last.
C17_DoubleBinding ==
    LET keys == {counted_name(receivers[i]) : i \in 1..Len(receivers)}
        lastOf(k) == CHOOSE i \in 1..Len(receivers) :
                        /\ counted_name(receivers[i]) = k
                        /\ \A j \in 1..Len(receivers) :
                              counted_name(receivers[j]) = k => j <= i
    IN  /\ DOMAIN counters = keys
        /\ \A k \in keys : counters[k] = receivers[lastOf(k)]
        /\ Built /\ built.error = "ok" =>
              Len(receivers) = Len(built.receivers_before) + 1
        /\ \A name \in DOMAIN columns, P \in ParentIds :
              columns[name][P] = Expected(receivers, Len(receivers), name, P)

\* the same binding registered twice; a parent with one counted child shows 2
C17_Witness ==
    /\ started
    /\ Len(receivers) = 2
    /\ receivers[1] = receivers[2]
    /\ Cardinality(DOMAIN counters) = 1
    /\ \E P \in ParentIds :
          /\ CountFor(receivers[1].pred, P) = 1
          /\ columns[receivers[1].counter_name][P] = 2

\* C18: when the bindings subscribed to the child model name different
\* counters, every event reaches each of them, each writes only the counter
\* it names, and each counter equals the number of persisted children that
\* its own callback counts; fields no binding names are never written.
C18_OwnCounterOnly ==
    (\A i, j \in 1..Len(receivers) :
        receivers[i].counter_name = receivers[j].counter_name => i = j) =>
        /\ \A i \in 1..Len(receivers), P \in ParentIds :
              columns[receivers[i].counter_name][P] = CountFor(receivers[i].pred, P)
        /\ \A name \in DOMAIN columns :
              (\A i \in 1..Len(receivers) : receivers[i].counter_name # name)
                 => columns[name] = Zero

\* two bindings with different counters and callbacks, and a parent whose
\* children they count differently
C18_Witness ==
    /\ started
    /\ Len(receivers) = 2
    /\ receivers[1].counter_name # receivers[2].counter_name
    /\ receivers[1].pred # receivers[2].pred
    /\ \E P \in ParentIds :
          /\ columns[receivers[1].counter_name][P] # columns[receivers[2].counter_name][P]
          /\ columns[receivers[1].counter_name][P] >= 1
          /\ columns[receivers[2].counter_name][P] >= 1

\* C19: validate runs before any registration step: when it raises, no
\* receiver has been connected and no entry added to `counters`; so no
\* receiver and no entry ever names a field that is not a CounterField, and
\* such a field is never adjusted by a child event.
C19_ValidateBeforeRegister ==
    /\ (ReachedValidate /\ built.error # "ok") => NothingRegistered
    /\ \A i \in 1..Len(receivers) :
          get_field_by_name(receivers[i].counter_name) = "CounterField"
    /\ \A k \in DOMAIN counters :
          get_field_by_name(counters[k].counter_name) = "CounterField"
    /\ \A name \in DOMAIN columns :
          ParentFields[name] # "CounterField" => columns[name] = Zero

\* validation failed for a Counter constructed after a valid one
C19_Witness ==
    /\ ReachedValidate
    /\ built.error \in {"TypeError", "FieldDoesNotExist"}
    /\ Len(built.receivers_before) = 1
    /\ NothingRegistered

====
